---- MODULE Spec2Model ----
\* The in-memory e-commerce API of src/main.py: the user directory
\* (users_db, next_user_id), the cart store (carts_db) and the request
\* handlers that read and change them. Every handler runs to completion
\* before the next one starts (Spec); `last` is the response of the handler
\* that ran last. SpecCartRace and SpecRegisterRace run the handlers the way
\* the thread pool does, as steps of threads that interleave.
EXTENDS Integers, Sequences, FiniteSets

VARIABLES users_db, next_user_id, carts_db, last

\* The handlers in flight (one frame of local variables per thread) and the
\* list objects that carts_db no longer holds but a frame still references.
VARIABLES threads, heap

\* What the threaded runs have done so far: per product, the quantities of
\* the accepted adds and of the orders returned; per record of users_db, how
\* long users_db was when its request made its two checks.
VARIABLES accepted, ordered, checked

threaded == <<threads, heap, accepted, ordered, checked>>

vars == <<users_db, next_user_id, carts_db, last, threads, heap, accepted, ordered, checked>>

----------------------------------------------------------------------------
\* Bounds and request inputs

\* The quantities of a cart stay >= 0 and add up to at most MaxQty (Python
\* ints are unbounded).
MaxQty == 2

\* The threaded registrations stop once MaxUsers requests have passed their
\* checks.
MaxUsers == 2

\* Strings are sequences of characters, so that '"@" in identifier' is computed.
Usernames == { <<"a">>, <<"b", "@", "x">> }

\* What a client may send as the email field; all pass EmailStr validation.
RawEmails == { <<"a", "@", "x">>, <<"b", "@", "x">>, <<"a", "@", "X">> }

\* Passwords sent to /login, and the ones sent to /register.
Passwords == { "p1", "p2" }

RegisterPasswords == { "p1" }

\* The random salts bcrypt.gensalt() may draw.
Salts == { "s1" }

\* What a client may send as username_or_email.
Identifiers == Usernames \cup RawEmails \cup { <<"z">> }

\* user_id path/query parameters: ids that get registered, and 3, which never is.
UserIds == 1..3

\* product_id inputs: two catalog products and 6, which is not in the catalog.
ProductIds == { 1, 4, 6 }

\* quantity inputs: CartItem.quantity is any int.
Quantities == { -1, 0, 1, 2 }

----------------------------------------------------------------------------
\* Sample data (prices in cents)

sample_products ==
    << [id |-> 1, name |-> "iPhone 15 Pro",      price |-> 99999],
       [id |-> 2, name |-> "Samsung Galaxy S23", price |-> 89999],
       [id |-> 3, name |-> "MacBook Air M2",     price |-> 129999],
       [id |-> 4, name |-> "Sony Headphones",    price |-> 34999],
       [id |-> 5, name |-> "Nike Shoes",         price |-> 17599] >>

\* Python's None, as returned by the find_* helpers.
None == [none |-> TRUE]

\* No response body (an HTTPException carries only status and detail).
NoBody == [kind |-> "none"]

\* The worker threads that run handlers, and a thread that runs none.
Threads == 1..2

Idle == [pc |-> "idle"]

\* No quantity of any product.
NoQuantities == [product_id \in { sample_products[i].id : i \in DOMAIN sample_products } |-> 0]

----------------------------------------------------------------------------
\* Helper functions

\* pydantic's EmailStr: the validated value is the address with its domain
\* (the part after "@") lower-cased; the local part is kept as sent.
Lower(c) == IF c = "X" THEN "x" ELSE c

AtPos(s) == CHOOSE i \in DOMAIN s : s[i] = "@" /\ \A j \in DOMAIN s : s[j] = "@" => j <= i

EmailStr(s) == [i \in DOMAIN s |-> IF i > AtPos(s) THEN Lower(s[i]) ELSE s[i]]

\* bcrypt: the hash embeds the salt; checkpw re-hashes with the embedded salt.
hash_password(password, salt) == [salt |-> salt, digest |-> password]

verify_password(plain_password, hashed_password) ==
    hash_password(plain_password, hashed_password.salt) = hashed_password

\* "for x in s: if <test>: return x" then "return None": the element at the
\* least of the matching indices, or None.
FirstMatch(s, matching) ==
    IF matching = { } THEN None
    ELSE s[CHOOSE i \in matching : \A j \in matching : i <= j]

\* A lookup that finds nobody.
find_user_by_username_nobody(username) == None

find_user_by_username(username) ==
    FirstMatch(users_db, { i \in DOMAIN users_db : users_db[i].username = username })

find_user_by_email_unchecked(email) == None

find_user_by_email(email) ==
    FirstMatch(users_db, { i \in DOMAIN users_db : users_db[i].email = email })

ContainsAt(identifier) == \E i \in DOMAIN identifier : identifier[i] = "@"

find_user_by_username_or_email(identifier) ==
    IF ContainsAt(identifier)
    THEN find_user_by_email(identifier)
    ELSE find_user_by_username(identifier)

find_product_by_id(product_id) ==
    FirstMatch(sample_products,
               { i \in DOMAIN sample_products : sample_products[i].id = product_id })

\* The public view of a user record: the hash is never part of a response.
UserView(user) == [id |-> user.id, username |-> user.username, email |-> user.email]

\* What a handler hands back: the HTTP status, the HTTPException detail or the
\* "message" of a success, and the rest of the JSON body.
Response(op, status, detail, body) ==
    [op |-> op, status |-> status, detail |-> detail, body |-> body]

\* The outcome of a handler run in the current state: the three globals as it
\* leaves them, and its response.
Outcome(users, next_id, carts, response) ==
    [users_db |-> users, next_user_id |-> next_id, carts_db |-> carts,
     response |-> response]

\* "raise HTTPException(...)" before any assignment, or a read-only handler.
Unchanged(response) == Outcome(users_db, next_user_id, carts_db, response)

\* One request served: the handler's outcome becomes the state.
Serve(outcome) ==
    /\ users_db' = outcome.users_db
    /\ next_user_id' = outcome.next_user_id
    /\ carts_db' = outcome.carts_db
    /\ last' = outcome.response
    /\ UNCHANGED threaded

----------------------------------------------------------------------------
\* Initial state: the module-level globals

Init ==
    /\ users_db = << >>
    /\ next_user_id = 1
    /\ carts_db = << >>
    /\ last = Response("start", 0, "", NoBody)
    /\ threads = [t \in Threads |-> Idle]
    /\ heap = << >>
    /\ accepted = NoQuantities
    /\ ordered = NoQuantities
    /\ checked = << >>

----------------------------------------------------------------------------
\* POST /register

\* A registration that leaves the new user without a cart.
InitialCart_skipped(user_id) == carts_db

\* "carts_db[new_user["id"]] = []"
InitialCart(user_id) ==
    [k \in DOMAIN carts_db \cup {user_id} |-> IF k = user_id THEN << >> ELSE carts_db[k]]

\* The success path of register_user.
Registered(username, email, password, salt) ==
    LET new_user == [id |-> next_user_id,
                     username |-> username,
                     email |-> email,
                     hashed_password |-> hash_password(password, salt)]
    IN  Outcome(Append(users_db, new_user),
                next_user_id + 1,
                InitialCart(new_user.id),
                Response("register", 200, "", UserView(new_user)))

\* A register_user that checks the email before the username.
register_user_email_first(username, raw_email, password, salt) ==
    LET email == EmailStr(raw_email)
    IN  IF find_user_by_email(email) # None
        THEN Unchanged(Response("register", 400, "Email already registered", NoBody))
        ELSE IF find_user_by_username(username) # None
        THEN Unchanged(Response("register", 400, "Username already taken", NoBody))
        ELSE Registered(username, email, password, salt)

\* A register_user that takes its id before the checks, so that a rejected
\* request consumes one.
register_user_id_first(username, raw_email, password, salt) ==
    LET email == EmailStr(raw_email)
    IN  IF find_user_by_username(username) # None
        THEN Outcome(users_db, next_user_id + 1, carts_db,
                     Response("register", 400, "Username already taken", NoBody))
        ELSE IF find_user_by_email(email) # None
        THEN Outcome(users_db, next_user_id + 1, carts_db,
                     Response("register", 400, "Email already registered", NoBody))
        ELSE Registered(username, email, password, salt)

register_user(username, raw_email, password, salt) ==
    LET email == EmailStr(raw_email)
    IN  IF find_user_by_username(username) # None
        THEN Unchanged(Response("register", 400, "Username already taken", NoBody))
        ELSE IF find_user_by_email(email) # None
        THEN Unchanged(Response("register", 400, "Email already registered", NoBody))
        ELSE Registered(username, email, password, salt)

----------------------------------------------------------------------------
\* POST /login

\* A login_user that tells an unknown identifier from a wrong password.
login_user_distinct(username_or_email, password) ==
    LET user == find_user_by_username_or_email(username_or_email)
    IN  IF user = None
        THEN Unchanged(Response("login", 404, "User not found", NoBody))
        ELSE IF ~verify_password(password, user.hashed_password)
        THEN Unchanged(Response("login", 401, "Invalid credentials", NoBody))
        ELSE Unchanged(Response("login", 200, "Login successful", UserView(user)))

login_user(username_or_email, password) ==
    LET user == find_user_by_username_or_email(username_or_email)
    IN  IF user = None
        THEN Unchanged(Response("login", 401, "Invalid credentials", NoBody))
        ELSE IF ~verify_password(password, user.hashed_password)
        THEN Unchanged(Response("login", 401, "Invalid credentials", NoBody))
        ELSE Unchanged(Response("login", 200, "Login successful", UserView(user)))

----------------------------------------------------------------------------
\* POST /cart

user_exists(user_id) == \E i \in DOMAIN users_db : users_db[i].id = user_id

\* "if user_id not in carts_db"
CartMissing(user_id) == user_id \notin DOMAIN carts_db

\* "if user_id not in carts_db: carts_db[user_id] = []"
InitCartIfMissing(user_id) ==
    IF CartMissing(user_id)
    THEN [k \in DOMAIN carts_db \cup {user_id} |->
             IF k = user_id THEN << >> ELSE carts_db[k]]
    ELSE carts_db

\* A merge that never looks for an existing line item.
MergeItem_append(cart, product_id, quantity) ==
    Append(cart, [product_id |-> product_id, quantity |-> quantity])

\* A merge that overwrites the quantity ("=" for "+=").
MergeItem_overwrite(cart, product_id, quantity) ==
    IF \E i \in DOMAIN cart : cart[i].product_id = product_id
    THEN LET i == CHOOSE i \in DOMAIN cart :
                    /\ cart[i].product_id = product_id
                    /\ \A j \in 1..(i-1) : cart[j].product_id # product_id
         IN  [cart EXCEPT ![i].quantity = quantity]
    ELSE Append(cart, [product_id |-> product_id, quantity |-> quantity])

\* The for/else loop: the first line item of the product is incremented in
\* place (break); without one, a new line item is appended.
MergeItem(cart, product_id, quantity) ==
    IF \E i \in DOMAIN cart : cart[i].product_id = product_id
    THEN LET i == CHOOSE i \in DOMAIN cart :
                    /\ cart[i].product_id = product_id
                    /\ \A j \in 1..(i-1) : cart[j].product_id # product_id
         IN  [cart EXCEPT ![i].quantity = @ + quantity]
    ELSE Append(cart, [product_id |-> product_id, quantity |-> quantity])

\* The success path of add_to_cart (the response also echoes the cart_item).
Added(user_id, product_id, quantity) ==
    LET carts == InitCartIfMissing(user_id)
    IN  Outcome(users_db,
                next_user_id,
                [carts EXCEPT ![user_id] = MergeItem(@, product_id, quantity)],
                Response("add_to_cart", 200, "Product added to cart",
                         [user_id |-> user_id]))

\* An add_to_cart that looks the product up before the user.
add_to_cart_product_first(user_id, product_id, quantity) ==
    IF find_product_by_id(product_id) = None
    THEN Unchanged(Response("add_to_cart", 404, "Product not found", NoBody))
    ELSE IF ~user_exists(user_id)
    THEN Unchanged(Response("add_to_cart", 404, "User not found", NoBody))
    ELSE Added(user_id, product_id, quantity)

\* An add_to_cart without the product lookup.
add_to_cart_any_product(user_id, product_id, quantity) ==
    IF ~user_exists(user_id)
    THEN Unchanged(Response("add_to_cart", 404, "User not found", NoBody))
    ELSE Added(user_id, product_id, quantity)

add_to_cart(user_id, product_id, quantity) ==
    IF ~user_exists(user_id)
    THEN Unchanged(Response("add_to_cart", 404, "User not found", NoBody))
    ELSE IF find_product_by_id(product_id) = None
    THEN Unchanged(Response("add_to_cart", 404, "Product not found", NoBody))
    ELSE Added(user_id, product_id, quantity)

RECURSIVE SumSeq(_)
SumSeq(s) == IF s = << >> THEN 0 ELSE Head(s) + SumSeq(Tail(s))

\* The requests the model serves: those that leave the quantities of the
\* user's cart >= 0 and their sum at most MaxQty.
InBounds(user_id, outcome) ==
    user_id \in DOMAIN outcome.carts_db =>
        LET cart == outcome.carts_db[user_id]
        IN  /\ \A i \in DOMAIN cart : cart[i].quantity >= 0
            /\ SumSeq([i \in DOMAIN cart |-> cart[i].quantity]) <= MaxQty

----------------------------------------------------------------------------
\* GET /cart/{user_id} and POST /checkout/{user_id}

\* The enrichment loop shared by get_cart and checkout: line items whose
\* product is not found are skipped (get_cart also copies the image).
EnrichedItems(cart) ==
    LET Resolvable(cart_item) == find_product_by_id(cart_item.product_id) # None
        kept == SelectSeq(cart, Resolvable)
    IN  [i \in DOMAIN kept |->
            LET product == find_product_by_id(kept[i].product_id)
            IN  [product_id |-> product.id,
                 name |-> product.name,
                 price |-> product.price,
                 quantity |-> kept[i].quantity,
                 item_total |-> product.price * kept[i].quantity]]

\* A get_cart that counts line items ("+= 1") instead of quantities.
get_cart_counts_lines(user_id) ==
    IF user_id \notin DOMAIN carts_db
    THEN Unchanged(Response("get_cart", 404, "Cart not found for this user", NoBody))
    ELSE LET cart_items == EnrichedItems(carts_db[user_id])
         IN  Unchanged(Response("get_cart", 200, "",
                                [user_id |-> user_id,
                                 items |-> cart_items,
                                 total_items |-> Len(cart_items)]))

get_cart(user_id) ==
    IF user_id \notin DOMAIN carts_db
    THEN Unchanged(Response("get_cart", 404, "Cart not found for this user", NoBody))
    ELSE LET cart_items == EnrichedItems(carts_db[user_id])
             total_items == SumSeq([i \in DOMAIN cart_items |-> cart_items[i].quantity])
         IN  Unchanged(Response("get_cart", 200, "",
                                [user_id |-> user_id,
                                 items |-> cart_items,
                                 total_items |-> total_items]))

\* An emptiness test that forgets the "or not carts_db[user_id]" half.
CartIsEmpty_missing_only(user_id) == user_id \notin DOMAIN carts_db

\* "user_id not in carts_db or not carts_db[user_id]"
CartIsEmpty(user_id) ==
    user_id \notin DOMAIN carts_db \/ carts_db[user_id] = << >>

\* A subtotal that keeps the last item_total only ("=" for "+=").
Subtotal_last(cart_items) ==
    IF cart_items = << >> THEN 0 ELSE cart_items[Len(cart_items)].item_total

\* "subtotal = 0.0" and "subtotal += item_total" over the enriched items.
Subtotal(cart_items) ==
    SumSeq([i \in DOMAIN cart_items |-> cart_items[i].item_total])

\* A checkout that leaves the cart as it is.
ClearedCart_kept(user_id) == carts_db

\* A checkout that empties every user's cart.
ClearedCart_all(user_id) == [k \in DOMAIN carts_db |-> << >>]

\* "carts_db[user_id] = []"
ClearedCart(user_id) == [carts_db EXCEPT ![user_id] = << >>]

checkout(user_id) ==
    IF CartIsEmpty(user_id)
    THEN Unchanged(Response("checkout", 400, "Cart is empty", NoBody))
    ELSE LET cart_items == EnrichedItems(carts_db[user_id])
             subtotal == Subtotal(cart_items)
         IN  Outcome(users_db,
                     next_user_id,
                     ClearedCart(user_id),
                     Response("checkout", 200, "Order placed successfully!",
                              [user_id |-> user_id,
                               items |-> cart_items,
                               subtotal |-> subtotal,
                               total |-> subtotal]))

----------------------------------------------------------------------------
\* GET /stats

\* sum(len(cart) for cart in carts_db.values()), over the carts keyed by `keys`
RECURSIVE SumCartLens(_)
SumCartLens(keys) ==
    IF keys = { } THEN 0
    ELSE LET k == CHOOSE k \in keys : TRUE
         IN  Len(carts_db[k]) + SumCartLens(keys \ {k})

get_stats ==
    Unchanged(Response("get_stats", 200, "",
                       [total_users |-> Len(users_db),
                        total_products |-> Len(sample_products),
                        users_with_carts |-> Cardinality(DOMAIN carts_db),
                        total_cart_items |-> SumCartLens(DOMAIN carts_db)]))

----------------------------------------------------------------------------
\* The requests, served one at a time

RegisterRequest ==
    \E username \in Usernames, raw_email \in RawEmails,
       password \in RegisterPasswords, salt \in Salts :
       Serve(register_user(username, raw_email, password, salt))

LoginRequest ==
    \E username_or_email \in Identifiers, password \in Passwords :
       Serve(login_user(username_or_email, password))

AddToCartRequest ==
    \E user_id \in UserIds, product_id \in ProductIds, quantity \in Quantities :
       LET outcome == add_to_cart(user_id, product_id, quantity)
       IN  /\ InBounds(user_id, outcome)
           /\ Serve(outcome)

GetCartRequest == \E user_id \in UserIds : Serve(get_cart(user_id))

CheckoutRequest == \E user_id \in UserIds : Serve(checkout(user_id))

Next ==
    \/ RegisterRequest
    \/ LoginRequest
    \/ AddToCartRequest
    \/ GetCartRequest
    \/ CheckoutRequest

Spec == Init /\ [][Next]_vars

----------------------------------------------------------------------------
\* Properties

RegisteredIds == { users_db[i].id : i \in DOMAIN users_db }

CatalogIds == { sample_products[i].id : i \in DOMAIN sample_products }

UsernameTaken(username) == \E i \in DOMAIN users_db : users_db[i].username = username

EmailTaken(email) == \E i \in DOMAIN users_db : users_db[i].email = email

\* The outcome leaves users_db, next_user_id and carts_db as they are.
StoresUnchanged(outcome) ==
    /\ outcome.users_db = users_db
    /\ outcome.next_user_id = next_user_id
    /\ outcome.carts_db = carts_db

\* C1: no two users in users_db share a username, and no two share an email.
C1_UniqueUsernameAndEmail ==
    \A i, j \in DOMAIN users_db :
        i # j => /\ users_db[i].username # users_db[j].username
                 /\ users_db[i].email # users_db[j].email

\* Two users are registered and a further registration has just been rejected.
C1_Witness ==
    /\ Len(users_db) = 2
    /\ last.op = "register"
    /\ last.status = 400

\* C2: register with a taken username fails with 400 'Username already taken';
\* otherwise, with a taken email, it fails with 400 'Email already registered';
\* both failures leave users_db, next_user_id and carts_db unchanged.
C2_RegisterRejectsDuplicates ==
    \A username \in Usernames, raw_email \in RawEmails,
       password \in RegisterPasswords, salt \in Salts :
       LET outcome == register_user(username, raw_email, password, salt)
       IN  /\ UsernameTaken(username) =>
                /\ outcome.response
                      = Response("register", 400, "Username already taken", NoBody)
                /\ StoresUnchanged(outcome)
           /\ (~UsernameTaken(username) /\ EmailTaken(EmailStr(raw_email))) =>
                /\ outcome.response
                      = Response("register", 400, "Email already registered", NoBody)
                /\ StoresUnchanged(outcome)

\* The email rejection has just happened, with a user registered.
C2_Witness ==
    /\ users_db # << >>
    /\ last = Response("register", 400, "Email already registered", NoBody)

\* C3: ids are sequential from 1 and never reused: the k-th successful
\* registration returns id k, a failed one consumes no id, users_db is in
\* strictly increasing id order, and next_user_id = len(users_db) + 1.
C3_SequentialIds ==
    /\ next_user_id = Len(users_db) + 1
    /\ \A k \in DOMAIN users_db : users_db[k].id = k
    /\ (last.op = "register" /\ last.status = 200) => last.body.id = Len(users_db)
    /\ \A username \in Usernames, raw_email \in RawEmails,
          password \in RegisterPasswords, salt \in Salts :
          LET outcome == register_user(username, raw_email, password, salt)
          IN  IF outcome.response.status = 200
              THEN /\ outcome.response.body.id = Len(users_db) + 1
                   /\ outcome.next_user_id = next_user_id + 1
              ELSE outcome.next_user_id = next_user_id

\* The second registration has succeeded with id 2.
C3_Witness ==
    /\ Len(users_db) = 2
    /\ last.op = "register"
    /\ last.status = 200
    /\ last.body.id = 2

\* C4: the key set of carts_db is the set of registered ids (so /stats reports
\* users_with_carts = total_users), a fresh user's cart is empty, get_cart is
\* 404 exactly for unregistered ids, and add_to_cart never finds the cart missing.
C4_CartPerRegisteredUser ==
    /\ DOMAIN carts_db = RegisteredIds
    /\ get_stats.response.body.users_with_carts = get_stats.response.body.total_users
    /\ (last.op = "register" /\ last.status = 200) => carts_db[last.body.id] = << >>
    /\ \A user_id \in UserIds :
          /\ get_cart(user_id).response.status = 404 <=> user_id \notin RegisteredIds
          /\ user_exists(user_id) => ~CartMissing(user_id)
    /\ (last.op = "get_cart" /\ last.status = 200) => last.body.user_id \in RegisteredIds

\* One user with a cart in use is registered, and get_cart has just answered
\* 404 for another id.
C4_Witness ==
    /\ Len(users_db) = 1
    /\ carts_db[1] # << >>
    /\ last = Response("get_cart", 404, "Cart not found for this user", NoBody)

\* The password verifies against the user's hash.
CorrectPassword(user, password) == verify_password(password, user.hashed_password)

\* C5: every registered user logs in with username + correct password and
\* with email + correct password, and both return that user's public view,
\* whatever the username (also one that contains "@").
C5_LoginByUsernameAndByEmail ==
    \A i \in DOMAIN users_db : \A password \in Passwords :
        CorrectPassword(users_db[i], password) =>
            /\ login_user(users_db[i].username, password).response
                  = Response("login", 200, "Login successful", UserView(users_db[i]))
            /\ login_user(users_db[i].email, password).response
                  = Response("login", 200, "Login successful", UserView(users_db[i]))

\* Whether login's lookup finds a user for the identifier.
Resolves(identifier) ==
    IF ContainsAt(identifier) THEN EmailTaken(identifier) ELSE UsernameTaken(identifier)

InvalidCredentials == Response("login", 401, "Invalid credentials", NoBody)

\* C6: a login whose identifier matches no user and a login whose password
\* does not verify get the identical response, 401 'Invalid credentials', and
\* no login, successful or not, changes users_db, next_user_id or carts_db.
C6_LoginFailuresIdentical ==
    \A username_or_email \in Identifiers, password \in Passwords :
       LET outcome == login_user(username_or_email, password)
       IN  /\ StoresUnchanged(outcome)
           /\ ~Resolves(username_or_email) => outcome.response = InvalidCredentials
           /\ (/\ Resolves(username_or_email)
               /\ ~CorrectPassword(find_user_by_username_or_email(username_or_email),
                                   password))
                 => outcome.response = InvalidCredentials

\* A login has just failed in a state where both kinds of failure can happen.
C6_Witness ==
    /\ last = InvalidCredentials
    /\ \E username_or_email \in Identifiers : ~Resolves(username_or_email)
    /\ \E username_or_email \in Identifiers, password \in Passwords :
          /\ Resolves(username_or_email)
          /\ ~CorrectPassword(find_user_by_username_or_email(username_or_email), password)

\* C7: every cart holds at most one line item per product_id.
C7_OneLineItemPerProduct ==
    \A user_id \in DOMAIN carts_db :
        \A i, j \in DOMAIN carts_db[user_id] :
            i # j => carts_db[user_id][i].product_id # carts_db[user_id][j].product_id

\* An add has just succeeded and a cart has two line items, one merged to 2.
C7_Witness ==
    /\ last.op = "add_to_cart"
    /\ last.status = 200
    /\ \E user_id \in DOMAIN carts_db :
          /\ Len(carts_db[user_id]) = 2
          /\ carts_db[user_id][2].quantity = 2

\* The quantity of a product in a cart: the sum over its line items.
QuantityOf(cart, product_id) ==
    SumSeq([i \in DOMAIN cart |->
               IF cart[i].product_id = product_id THEN cart[i].quantity ELSE 0])

\* C8: a successful add_to_cart(u, p, q) leaves p at its previous quantity
\* (0 without a line item) plus q: an existing line item is incremented in
\* place, a missing one is appended at the end, and every other line item
\* keeps its quantity and its position.
C8_AddMergesQuantity ==
    \A user_id \in UserIds, product_id \in ProductIds, quantity \in Quantities :
       LET outcome == add_to_cart(user_id, product_id, quantity)
           old == IF user_id \in DOMAIN carts_db THEN carts_db[user_id] ELSE << >>
           new == outcome.carts_db[user_id]
       IN  outcome.response.status = 200 =>
              /\ QuantityOf(new, product_id) = QuantityOf(old, product_id) + quantity
              /\ \A i \in DOMAIN old :
                    /\ i \in DOMAIN new
                    /\ new[i].product_id = old[i].product_id
                    /\ old[i].product_id # product_id => new[i] = old[i]
              /\ IF \E i \in DOMAIN old : old[i].product_id = product_id
                 THEN Len(new) = Len(old)
                 ELSE /\ Len(new) = Len(old) + 1
                      /\ new[Len(new)] = [product_id |-> product_id,
                                          quantity |-> quantity]

\* An add has just succeeded on user 1's cart of two line items, whose first
\* one has been merged to 2 in place, ahead of the other.
C8_Witness ==
    /\ last = Response("add_to_cart", 200, "Product added to cart", [user_id |-> 1])
    /\ Len(carts_db[1]) = 2
    /\ carts_db[1][1].quantity = 2

\* C9: every line item in every cart has quantity >= 1.
C9_PositiveQuantities ==
    \A user_id \in DOMAIN carts_db :
        \A i \in DOMAIN carts_db[user_id] : carts_db[user_id][i].quantity >= 1

\* C10: add_to_cart for an unregistered user_id fails with 404 'User not
\* found'; for a registered one and a product_id outside the catalog, with 404
\* 'Product not found'; both leave carts_db and users_db unchanged.
C10_AddToCartNotFound ==
    \A user_id \in UserIds, product_id \in ProductIds, quantity \in Quantities :
       LET outcome == add_to_cart(user_id, product_id, quantity)
       IN  /\ user_id \notin RegisteredIds =>
                /\ outcome.response
                      = Response("add_to_cart", 404, "User not found", NoBody)
                /\ StoresUnchanged(outcome)
           /\ (user_id \in RegisteredIds /\ product_id \notin CatalogIds) =>
                /\ outcome.response
                      = Response("add_to_cart", 404, "Product not found", NoBody)
                /\ StoresUnchanged(outcome)

\* A registered user's add has just failed on the product, the cart in use.
C10_Witness ==
    /\ last = Response("add_to_cart", 404, "Product not found", NoBody)
    /\ users_db # << >>
    /\ carts_db[1] # << >>

\* The catalog price of a product id.
PriceOf(product_id) ==
    LET k == CHOOSE k \in DOMAIN sample_products : sample_products[k].id = product_id
    IN  sample_products[k].price

\* The quantities of a cart, added up.
TotalQuantity(cart) == SumSeq([i \in DOMAIN cart |-> cart[i].quantity])

\* "items" lists the cart's line items in cart order, each with its catalog
\* price and item_total = price * quantity.
ItemsMatchCart(items, cart) ==
    /\ Len(items) = Len(cart)
    /\ \A i \in DOMAIN cart :
          /\ items[i].product_id = cart[i].product_id
          /\ items[i].quantity = cart[i].quantity
          /\ items[i].price = PriceOf(cart[i].product_id)
          /\ items[i].item_total = PriceOf(cart[i].product_id) * cart[i].quantity

\* C11: get_cart changes nothing, and for a user with a cart entry it returns
\* one enriched item per line item, in cart order, with item_total = price *
\* quantity and total_items = the sum of the quantities; asked again right
\* after, it returns the same.
C11_GetCartExactAndReadOnly ==
    /\ \A user_id \in UserIds :
          LET outcome == get_cart(user_id)
          IN  /\ StoresUnchanged(outcome)
              /\ user_id \in DOMAIN carts_db =>
                    /\ outcome.response.status = 200
                    /\ outcome.response.body.user_id = user_id
                    /\ ItemsMatchCart(outcome.response.body.items, carts_db[user_id])
                    /\ outcome.response.body.total_items
                          = TotalQuantity(carts_db[user_id])
    /\ (last.op = "get_cart" /\ last.status = 200) =>
          get_cart(last.body.user_id).response = last

\* get_cart has just returned a cart of two line items and total_items 2.
C11_Witness ==
    /\ last.op = "get_cart"
    /\ last.status = 200
    /\ Len(last.body.items) = 2
    /\ last.body.total_items = 2

CartIsEmptyResponse == Response("checkout", 400, "Cart is empty", NoBody)

\* C12: checkout fails with 400 'Cart is empty' exactly when the user has no
\* cart entry or the entry holds no line item, and a failed checkout leaves
\* carts_db as it is.
C12_CheckoutEmptyCart ==
    \A user_id \in UserIds :
       LET outcome == checkout(user_id)
           empty == user_id \notin DOMAIN carts_db \/ Len(carts_db[user_id]) = 0
       IN  /\ empty <=> outcome.response = CartIsEmptyResponse
           /\ ~empty <=> outcome.response.status = 200
           /\ empty => StoresUnchanged(outcome)

\* A checkout has just failed while one user has an empty cart, another a
\* cart in use, and id 3 has no cart entry.
C12_Witness ==
    /\ last = CartIsEmptyResponse
    /\ Len(users_db) = 2
    /\ carts_db[1] = << >>
    /\ carts_db[2] # << >>

\* C13: a successful checkout(u) leaves u's cart entry present and empty, so
\* that a checkout(u) right after it fails with 'Cart is empty' and a
\* get_cart(u) right after it returns no item and total_items = 0.
C13_CheckoutClearsCart ==
    /\ \A user_id \in UserIds :
          LET outcome == checkout(user_id)
          IN  outcome.response.status = 200 =>
                 /\ user_id \in DOMAIN outcome.carts_db
                 /\ outcome.carts_db[user_id] = << >>
    /\ (last.op = "checkout" /\ last.status = 200) =>
          /\ last.body.user_id \in DOMAIN carts_db
          /\ carts_db[last.body.user_id] = << >>
          /\ checkout(last.body.user_id).response = CartIsEmptyResponse
          /\ get_cart(last.body.user_id).response.status = 200
          /\ get_cart(last.body.user_id).response.body.items = << >>
          /\ get_cart(last.body.user_id).response.body.total_items = 0

\* A checkout of user 1 has just succeeded.
C13_Witness ==
    /\ last.op = "checkout"
    /\ last.status = 200
    /\ last.body.user_id = 1
    /\ last.body.items # << >>

\* The cart of the example: product 1 twice, product 4 once.
ExampleCart ==
    << [product_id |-> 1, quantity |-> 2], [product_id |-> 4, quantity |-> 1] >>

UsersUnchanged(outcome) ==
    /\ outcome.users_db = users_db
    /\ outcome.next_user_id = next_user_id

\* The outcome keeps every cart except, possibly, the cart of user_id.
OtherCartsUnchanged(user_id, outcome) ==
    /\ DOMAIN outcome.carts_db \subseteq DOMAIN carts_db \cup {user_id}
    /\ \A other \in DOMAIN carts_db \ {user_id} :
          /\ other \in DOMAIN outcome.carts_db
          /\ outcome.carts_db[other] = carts_db[other]

\* C17: add_to_cart(u) and checkout(u) change no cart but carts_db[u];
\* register changes no existing cart and no existing user record; add_to_cart,
\* get_cart, checkout and login never change users_db or next_user_id.
C17_Frame ==
    /\ \A user_id \in UserIds :
          /\ OtherCartsUnchanged(user_id, checkout(user_id))
          /\ UsersUnchanged(checkout(user_id))
          /\ UsersUnchanged(get_cart(user_id))
          /\ \A product_id \in ProductIds, quantity \in Quantities :
                /\ OtherCartsUnchanged(user_id, add_to_cart(user_id, product_id, quantity))
                /\ UsersUnchanged(add_to_cart(user_id, product_id, quantity))
    /\ \A username_or_email \in Identifiers, password \in Passwords :
          UsersUnchanged(login_user(username_or_email, password))
    /\ \A username \in Usernames, email \in RawEmails,
          password \in RegisterPasswords, salt \in Salts :
          LET outcome == register_user(username, email, password, salt)
          IN  /\ \A existing \in DOMAIN carts_db :
                    /\ existing \in DOMAIN outcome.carts_db
                    /\ outcome.carts_db[existing] = carts_db[existing]
              /\ Len(outcome.users_db) >= Len(users_db)
              /\ \A i \in DOMAIN users_db : outcome.users_db[i] = users_db[i]

\* User 2 has just checked out while user 1 holds a cart of two line items.
C17_Witness ==
    /\ last.op = "checkout"
    /\ last.status = 200
    /\ last.body.user_id = 2
    /\ Len(users_db) = 2
    /\ Len(carts_db[1]) = 2
    /\ carts_db[2] = << >>

\* C18: every line item references a catalog product, so get_cart and
\* checkout skip none: get_cart returns as many items as the cart has line
\* items, and total_cart_items of /stats is the sum over the users of the
\* number of items get_cart reports.
C18_LineItemsInCatalog ==
    /\ \A user_id \in DOMAIN carts_db :
          /\ \A i \in DOMAIN carts_db[user_id] :
                carts_db[user_id][i].product_id \in CatalogIds
          /\ Len(EnrichedItems(carts_db[user_id])) = Len(carts_db[user_id])
          /\ Len(get_cart(user_id).response.body.items) = Len(carts_db[user_id])
    /\ \A i \in DOMAIN users_db : users_db[i].id \in DOMAIN carts_db
    /\ get_stats.response.body.total_cart_items
          = SumSeq([i \in DOMAIN users_db |->
                       Len(get_cart(users_db[i].id).response.body.items)])

\* An add has just been accepted and /stats counts three line items over two
\* users.
C18_Witness ==
    /\ last.op = "add_to_cart"
    /\ last.status = 200
    /\ Len(users_db) = 2
    /\ get_stats.response.body.total_cart_items = 3

----------------------------------------------------------------------------
\* add_to_cart and checkout as steps of threads
\*
\* FastAPI runs "def" handlers in a thread pool and the handlers take no
\* lock, so a thread can be preempted between any two statements. A frame's
\* "cart" is the list object the handler holds: 0 for the list carts_db[user_id]
\* is bound to, k > 0 for heap[k], a list that carts_db was bound to before a
\* checkout replaced it.

\* The state after one POST /register: user 1 with an empty cart.
FirstUser ==
    [id |-> 1, username |-> <<"a">>, email |-> <<"a", "@", "x">>,
     hashed_password |-> hash_password("p1", "s1")]

InitCartRace ==
    /\ users_db = << FirstUser >>
    /\ next_user_id = 2
    /\ carts_db = [k \in {1} |-> << >>]
    /\ last = Response("register", 200, "", UserView(FirstUser))
    /\ threads = [t \in Threads |-> Idle]
    /\ heap = << >>
    /\ accepted = NoQuantities
    /\ ordered = NoQuantities
    /\ checked = << >>

\* The quantities of the adds that have passed their checks and not returned.
RECURSIVE PendingQuantity(_)
PendingQuantity(ts) ==
    IF ts = { } THEN 0
    ELSE LET t == CHOOSE t \in ts : TRUE
         IN  (IF threads[t].pc \in {"add_read", "add_merge"} THEN threads[t].quantity ELSE 0)
             + PendingQuantity(ts \ {t})

\* add_to_cart, the two checks: "User not found" and "Product not found" end
\* the request. The adds admitted keep the quantities at or under MaxQty.
AddCheck(t) ==
    /\ threads[t] = Idle
    /\ \E user_id \in UserIds, product_id \in ProductIds, quantity \in 1..MaxQty :
          /\ SumSeq([i \in 1..Len(sample_products) |-> accepted[sample_products[i].id]])
                + PendingQuantity(Threads) + quantity <= MaxQty
          /\ threads' = [threads EXCEPT ![t] =
                IF ~user_exists(user_id) \/ find_product_by_id(product_id) = None
                THEN Idle
                ELSE [pc |-> "add_read", user_id |-> user_id,
                      product_id |-> product_id, quantity |-> quantity]]
    /\ UNCHANGED <<users_db, next_user_id, carts_db, last, heap, accepted, ordered, checked>>

\* "if user_id not in carts_db: carts_db[user_id] = []" and
\* "cart = carts_db[user_id]": the frame holds the list carts_db is bound to.
AddReadCart(t) ==
    /\ threads[t].pc = "add_read"
    /\ carts_db' = InitCartIfMissing(threads[t].user_id)
    /\ threads' = [threads EXCEPT ![t] =
          [pc |-> "add_merge", user_id |-> threads[t].user_id,
           product_id |-> threads[t].product_id, quantity |-> threads[t].quantity,
           cart |-> 0]]
    /\ UNCHANGED <<users_db, next_user_id, last, heap, accepted, ordered, checked>>

\* The for/else loop on the list the frame holds, and the 200 response.
AddMerge(t) ==
    /\ threads[t].pc = "add_merge"
    /\ LET frame == threads[t]
       IN  /\ IF frame.cart = 0
              THEN /\ carts_db' = [carts_db EXCEPT ![frame.user_id] =
                                      MergeItem(@, frame.product_id, frame.quantity)]
                   /\ heap' = heap
              ELSE /\ heap' = [heap EXCEPT ![frame.cart] =
                                  MergeItem(@, frame.product_id, frame.quantity)]
                   /\ carts_db' = carts_db
           /\ accepted' = [accepted EXCEPT ![frame.product_id] = @ + frame.quantity]
    /\ threads' = [threads EXCEPT ![t] = Idle]
    /\ UNCHANGED <<users_db, next_user_id, last, ordered, checked>>

\* checkout, the emptiness test: "Cart is empty" ends the request.
CheckoutTest(t) ==
    /\ threads[t] = Idle
    /\ \E user_id \in UserIds :
          threads' = [threads EXCEPT ![t] =
             IF CartIsEmpty(user_id)
             THEN Idle
             ELSE [pc |-> "checkout_totals", user_id |-> user_id]]
    /\ UNCHANGED <<users_db, next_user_id, carts_db, last, heap, accepted, ordered, checked>>

\* The totals loop over the list carts_db[user_id] is bound to now.
CheckoutTotals(t) ==
    /\ threads[t].pc = "checkout_totals"
    /\ LET cart_items == EnrichedItems(carts_db[threads[t].user_id])
       IN  threads' = [threads EXCEPT ![t] =
              [pc |-> "checkout_rebind", user_id |-> threads[t].user_id,
               cart_items |-> cart_items, subtotal |-> Subtotal(cart_items)]]
    /\ UNCHANGED <<users_db, next_user_id, carts_db, last, heap, accepted, ordered, checked>>

\* The frames that hold the list carts_db[user_id] is bound to.
Holders(user_id) ==
    { s \in Threads : /\ threads[s].pc = "add_merge"
                      /\ threads[s].user_id = user_id
                      /\ threads[s].cart = 0 }

\* "carts_db[user_id] = []" binds a new list: the frames that hold the old
\* one keep it. Then the response, with the items and totals of the loop.
CheckoutRebind(t) ==
    /\ threads[t].pc = "checkout_rebind"
    /\ LET frame == threads[t]
           holders == Holders(frame.user_id)
       IN  /\ carts_db' = ClearedCart(frame.user_id)
           /\ heap' = IF holders = { } THEN heap
                      ELSE Append(heap, carts_db[frame.user_id])
           /\ threads' = [s \in Threads |->
                 IF s = t THEN Idle
                 ELSE IF s \in holders THEN [threads[s] EXCEPT !.cart = Len(heap) + 1]
                 ELSE threads[s]]
           /\ ordered' = [product_id \in DOMAIN ordered |->
                 ordered[product_id] + QuantityOf(frame.cart_items, product_id)]
    /\ UNCHANGED <<users_db, next_user_id, last, accepted, checked>>

CartRaceNext ==
    \E t \in Threads :
       \/ AddCheck(t)
       \/ AddReadCart(t)
       \/ AddMerge(t)
       \/ CheckoutTest(t)
       \/ CheckoutTotals(t)
       \/ CheckoutRebind(t)

SpecCartRace == InitCartRace /\ [][CartRaceNext]_vars

\* No handler is in flight.
Quiescent == \A t \in Threads : threads[t] = Idle

\* C15: for user 1 and every product, once the handlers in flight have
\* returned, the quantities accepted by add_to_cart are the quantities
\* reported in checkout responses plus the quantity in the cart, under every
\* interleaving of the steps of add_to_cart and checkout.
C15_NoQuantityDropped ==
    Quiescent =>
       \A product_id \in CatalogIds :
          accepted[product_id] = ordered[product_id] + QuantityOf(carts_db[1], product_id)

----------------------------------------------------------------------------
\* register_user as steps of threads

\* The registrations that have passed the username check and not returned.
InFlight == { t \in Threads : threads[t].pc # "idle" }

\* "if find_user_by_username(user_data.username)": "Username already taken"
\* ends the request. The frame notes how long users_db was.
RegisterCheckUsername(t) ==
    /\ threads[t] = Idle
    /\ Len(users_db) + Cardinality(InFlight) < MaxUsers
    /\ \E username \in Usernames, raw_email \in RawEmails,
          password \in RegisterPasswords, salt \in Salts :
          threads' = [threads EXCEPT ![t] =
             IF find_user_by_username(username) # None
             THEN Idle
             ELSE [pc |-> "check_email", username |-> username,
                   email |-> EmailStr(raw_email), password |-> password,
                   salt |-> salt, checks |-> [username |-> Len(users_db)]]]
    /\ UNCHANGED <<users_db, next_user_id, carts_db, last, heap, accepted, ordered, checked>>

\* "if find_user_by_email(user_data.email)": "Email already registered" ends
\* the request.
RegisterCheckEmail(t) ==
    /\ threads[t].pc = "check_email"
    /\ threads' = [threads EXCEPT ![t] =
          IF find_user_by_email(threads[t].email) # None
          THEN Idle
          ELSE [threads[t] EXCEPT
                   !.pc = "new_user",
                   !.checks = [username |-> @.username, email |-> Len(users_db)]]]
    /\ UNCHANGED <<users_db, next_user_id, carts_db, last, heap, accepted, ordered, checked>>

\* "new_user = {"id": next_user_id, ...}": the id is the counter as read now.
RegisterNewUser(t) ==
    /\ threads[t].pc = "new_user"
    /\ threads' = [threads EXCEPT ![t] =
          [pc |-> "append", checks |-> threads[t].checks,
           new_user |-> [id |-> next_user_id,
                         username |-> threads[t].username,
                         email |-> threads[t].email,
                         hashed_password |->
                            hash_password(threads[t].password, threads[t].salt)]]]
    /\ UNCHANGED <<users_db, next_user_id, carts_db, last, heap, accepted, ordered, checked>>

\* "users_db.append(new_user)"
RegisterAppend(t) ==
    /\ threads[t].pc = "append"
    /\ users_db' = Append(users_db, threads[t].new_user)
    /\ checked' = Append(checked, threads[t].checks)
    /\ threads' = [threads EXCEPT ![t] = [pc |-> "load_id", new_user |-> @.new_user]]
    /\ UNCHANGED <<next_user_id, carts_db, last, heap, accepted, ordered>>

\* "next_user_id += 1" reads the global ...
RegisterLoadId(t) ==
    /\ threads[t].pc = "load_id"
    /\ threads' = [threads EXCEPT ![t] =
          [pc |-> "store_id", new_user |-> @.new_user, loaded |-> next_user_id]]
    /\ UNCHANGED <<users_db, next_user_id, carts_db, last, heap, accepted, ordered, checked>>

\* ... and writes it back, one more.
RegisterStoreId(t) ==
    /\ threads[t].pc = "store_id"
    /\ next_user_id' = threads[t].loaded + 1
    /\ threads' = [threads EXCEPT ![t] = [pc |-> "create_cart", new_user |-> @.new_user]]
    /\ UNCHANGED <<users_db, carts_db, last, heap, accepted, ordered, checked>>

\* "carts_db[new_user["id"]] = []" and the response.
RegisterCreateCart(t) ==
    /\ threads[t].pc = "create_cart"
    /\ carts_db' = InitialCart(threads[t].new_user.id)
    /\ last' = Response("register", 200, "", UserView(threads[t].new_user))
    /\ threads' = [threads EXCEPT ![t] = Idle]
    /\ UNCHANGED <<users_db, next_user_id, heap, accepted, ordered, checked>>

RegisterRaceNext ==
    \E t \in Threads :
       \/ RegisterCheckUsername(t)
       \/ RegisterCheckEmail(t)
       \/ RegisterNewUser(t)
       \/ RegisterAppend(t)
       \/ RegisterLoadId(t)
       \/ RegisterStoreId(t)
       \/ RegisterCreateCart(t)

SpecRegisterRace == Init /\ [][RegisterRaceNext]_vars

\* C16: the checks of register_user protect only against the records that
\* were in users_db when they ran: two records share a username (an email)
\* only if the later one's username (email) check ran before the earlier one
\* was appended. Such states exist (C16_Witness): interleaved registrations
\* end with two users of one username, one email and one id.
C16_DuplicatesOnlyByOverlap ==
    /\ Len(checked) = Len(users_db)
    /\ \A i, j \in DOMAIN users_db :
          i < j =>
             /\ users_db[i].username = users_db[j].username => checked[j].username < i
             /\ users_db[i].email = users_db[j].email => checked[j].email < i

\* Two registrations have returned and left two users who share their
\* username, their email and their id; the counter has moved by one only.
C16_Witness ==
    /\ Quiescent
    /\ Len(users_db) = 2
    /\ users_db[1].username = users_db[2].username
    /\ users_db[1].email = users_db[2].email
    /\ users_db[1].id = users_db[2].id
    /\ next_user_id = 2

====
